---- MODULE Spec2Model ----
(***************************************************************************)
(* Model of the direct DAG scheduler of the hipSYCL runtime                *)
(* (src/runtime/dag_direct_scheduler.cpp) together with the Level Zero     *)
(* backend stub (src/runtime/ze/ze_backend.cpp) and the device lookup of   *)
(* the Level Zero hardware manager (src/runtime/ze/ze_hardware_manager.cpp). *)
(*                                                                         *)
(* A buffer is a one-dimensional array of NumCells elements; a rectangle   *)
(* (range_store::rect, a pair of offset and extent) is <<offset, extent>>. *)
(* One data region is modelled; the specification of two concurrent        *)
(* submit calls has a second one.  The DAG node, the data region with its  *)
(* range store and the executors are not part of the sources at hand;      *)
(* they follow the written specification of their contracts.               *)
(***************************************************************************)
EXTENDS Integers, Sequences, FiniteSets, TLC

VARIABLES nodes, ops, valid, alloc, errors, registry, crashed, calls, call,
          writer, since, par, ze

vars == <<nodes, ops, valid, alloc, errors, registry, crashed, calls, call, writer, since,
          par, ze>>

-----------------------------------------------------------------------------
(* Bounds *)

NumCells == 3

MaxReqs == 2

MaxCalls == 2

\* the devices the Level Zero hardware manager can hold, and the device
\* handles of the driver
MaxZeDevices == 3

NumHandles == 3

-----------------------------------------------------------------------------
(* Devices, backends, access modes *)

NoDev == 0

NoEvent == 0

VirtualEvent == -1

NullPtr == "nullptr"

NoBackend == "none"

Devices == {1, 2, 3}

BackendOf(dev) == IF dev = 3 THEN "ze" ELSE "cuda"

Modes == {"read", "write", "read_write", "discard_write", "discard_read_write"}

Cells == 0 .. (NumCells - 1)

Rects == {r \in (0 .. (NumCells - 1)) \X (1 .. NumCells) : r[1] + r[2] <= NumCells}

RectCells(r) == r[1] .. (r[1] + r[2] - 1)

WholeBuffer == <<0, NumCells>>

InteriorCell == <<1, 1>>

-----------------------------------------------------------------------------
(* Region tracker: per device the set of valid cells *)

RunStarts(S, r) == {c \in RectCells(r) \cap S : c = r[1] \/ (c - 1) \notin S}

RunLen(S, r, c) == CHOOSE n \in 1 .. r[2] : /\ \A k \in 0 .. (n - 1) : (c + k) \in (S \cap RectCells(r))
                                            /\ (c + n) \notin (S \cap RectCells(r))

RECURSIVE SortedSeq(_)
SortedSeq(T) == IF T = {} THEN << >>
                ELSE LET m == CHOOSE x \in T : \A y \in T : x <= y
                     IN <<m>> \o SortedSeq(T \ {m})

\* the maximal runs of cells of S inside rectangle r, in ascending order
Runs(S, r) == LET st == SortedSeq(RunStarts(S, r))
              IN [i \in 1 .. Len(st) |-> <<st[i], RunLen(S, r, st[i])>>]

GetOutdatedRegions_valid_runs(v, dev, rect) == Runs(v[dev], rect)

GetOutdatedRegions(v, dev, rect) == Runs(Cells \ v[dev], rect)

RECURSIVE CandidatesFrom(_, _, _, _, _)
CandidatesFrom(v, al, dev, rect, i) ==
  IF i > Len(al) THEN << >>
  ELSE LET d == al[i]
           rs == Runs(v[d], rect)
           here == IF d = dev THEN << >> ELSE [k \in 1 .. Len(rs) |-> <<d, rs[k]>>]
       IN here \o CandidatesFrom(v, al, dev, rect, i + 1)

GetUpdateSourceCandidates(v, al, dev, rect) == CandidatesFrom(v, al, dev, rect, 1)

MarkRangeValid_toggles(v, dev, rect) ==
  [v EXCEPT ![dev] = (@ \ RectCells(rect)) \cup (RectCells(rect) \ @)]

MarkRangeValid(v, dev, rect) == [v EXCEPT ![dev] = @ \cup RectCells(rect)]

MarkRangeCurrent_only_invalidates(v, dev, rect) ==
  [d \in Devices |-> IF d = dev THEN v[d] ELSE v[d] \ RectCells(rect)]

MarkRangeCurrent(v, dev, rect) ==
  [d \in Devices |-> IF d = dev THEN v[d] \cup RectCells(rect) ELSE v[d] \ RectCells(rect)]

HasAllocation(al, dev) == \E i \in 1 .. Len(al) : al[i] = dev

AddEmptyAllocation(al, dev) == Append(al, dev)

-----------------------------------------------------------------------------
(* DAG node *)

NewNode(kind, hint, pref, reqs, mode, rect) ==
  [kind |-> kind, hint |-> hint, pref |-> pref, reqs |-> reqs,
   mode |-> mode, rect |-> rect,
   dev |-> NoDev, executor |-> NoBackend, ptr |-> NoDev,
   submitted |-> FALSE, cancelled |-> FALSE, virtual |-> FALSE,
   event |-> NoEvent, copies |-> << >>]

IsRequirement(nd) == nd.kind = "requirement"

IsSubmitted(nd) == nd.submitted

EventComplete(os, ev) == IF ev = VirtualEvent THEN TRUE
                         ELSE IF ev = NoEvent THEN FALSE
                         ELSE os[ev].done

IsComplete(ns, os, n) == \/ ns[n].cancelled
                         \/ ns[n].submitted /\ EventComplete(os, ns[n].event)

Cancel(nd) == [nd EXCEPT !.submitted = TRUE, !.cancelled = TRUE]

MarkSubmitted(nd, ev) == [nd EXCEPT !.submitted = TRUE, !.event = ev]

MarkVirtuallySubmitted_not_ready(nd) == [nd EXCEPT !.submitted = TRUE, !.virtual = TRUE]

MarkVirtuallySubmitted(nd) == [MarkSubmitted(nd, VirtualEvent) EXCEPT !.virtual = TRUE]

AssignToDevice(nd, dev) == [nd EXCEPT !.dev = dev]

AssignToExecutor(nd, ex) == [nd EXCEPT !.executor = ex]

RECURSIVE NonvirtualRequirements(_, _)
NonvirtualRequirements(ns, n) ==
  LET rq == ns[n].reqs
      F[i \in 0 .. Len(rq)] ==
        IF i = 0 THEN << >>
        ELSE F[i - 1] \o (IF ns[rq[i]].virtual
                          THEN NonvirtualRequirements(ns, rq[i])
                          ELSE <<rq[i]>>)
  IN F[Len(rq)]

-----------------------------------------------------------------------------
(* Backends: the Level Zero backend has neither executor nor allocator *)

ZeGetExecutor(dev) == NullPtr

ZeGetAllocator(dev) == NullPtr

GetExecutor(backend, dev) == IF backend = "ze" THEN ZeGetExecutor(dev) ELSE backend

GetAllocator(backend, dev) == IF backend = "ze" THEN ZeGetAllocator(dev) ELSE backend

-----------------------------------------------------------------------------
(* Operations handed to executors.  A scheduler state s is the record of   *)
(* the program state that one submit call threads through its steps.       *)

IsDiscard_discard_write_only(mode) == mode = "discard_write"

IsDiscard(mode) == mode = "discard_write" \/ mode = "discard_read_write"

IsDataTransfer(op) == op.kind = "memcpy"

OwnOperation(nd) ==
  [kind |-> nd.kind, pref |-> nd.pref, src |-> NoDev, srcoff |-> 0,
   dst |-> NoDev, dstoff |-> 0, extent |-> 0]

MemcpyOperation_source_rect(source, target, region) ==
  [kind |-> "memcpy", pref |-> NoBackend, src |-> source[1], srcoff |-> source[2][1],
   dst |-> target, dstoff |-> source[2][1], extent |-> source[2][2]]

\* memcpy_operation op{src, dest, region.second}
MemcpyOperation(source, target, region) ==
  [kind |-> "memcpy", pref |-> NoBackend, src |-> source[1], srcoff |-> source[2][1],
   dst |-> target, dstoff |-> region[1], extent |-> region[2]]

RegisterError(s, e) == [s EXCEPT !.errors = Append(@, e)]

\* a virtual member function is called through a null pointer: the
\* process is killed, no later step of the program runs
NullDereference(s) == [s EXCEPT !.crashed = TRUE]

AbortSubmission_cancels_submitted(s, n) ==
  [s EXCEPT !.nodes =
     [i \in 1 .. Len(s.nodes) |->
        IF i = n \/ (\E k \in 1 .. Len(s.nodes[n].reqs) : s.nodes[n].reqs[k] = i)
        THEN Cancel(s.nodes[i]) ELSE s.nodes[i]]]

AbortSubmission_requirements_only(s, n) ==
  [s EXCEPT !.nodes =
     [i \in 1 .. Len(s.nodes) |->
        IF (\E k \in 1 .. Len(s.nodes[n].reqs) : s.nodes[n].reqs[k] = i)
           /\ ~IsSubmitted(s.nodes[i])
        THEN Cancel(s.nodes[i]) ELSE s.nodes[i]]]

AbortSubmission(s, n) ==
  [s EXCEPT !.nodes =
     [i \in 1 .. Len(s.nodes) |->
        IF i = n \/ ((\E k \in 1 .. Len(s.nodes[n].reqs) : s.nodes[n].reqs[k] = i)
                     /\ ~IsSubmitted(s.nodes[i]))
        THEN Cancel(s.nodes[i]) ELSE s.nodes[i]]]

AssignDevicesOrDefault_always_default(nd, default) == AssignToDevice(nd, default)

AssignDevicesOrDefault(nd, default) ==
  IF nd.hint = NoDev THEN AssignToDevice(nd, default) ELSE AssignToDevice(nd, nd.hint)

InitializeMemoryAccess(s, r) == [s EXCEPT !.nodes[r].ptr = s.nodes[r].dev]

EnsureAllocationExists_registers_null(s, r, oom) ==
  IF ~HasAllocation(s.alloc, s.nodes[r].dev)
  THEN IF GetAllocator(BackendOf(s.nodes[r].dev), s.nodes[r].dev) = NullPtr
       THEN [s |-> NullDereference(s), ok |-> FALSE]
       ELSE IF oom
            THEN [s |-> [RegisterError(s, "memory_allocation_error")
                           EXCEPT !.alloc = AddEmptyAllocation(@, s.nodes[r].dev)],
                  ok |-> FALSE]
            ELSE [s |-> [s EXCEPT !.alloc = AddEmptyAllocation(@, s.nodes[r].dev)], ok |-> TRUE]
  ELSE [s |-> s, ok |-> TRUE]

EnsureAllocationExists_always_allocates(s, r, oom) ==
  IF GetAllocator(BackendOf(s.nodes[r].dev), s.nodes[r].dev) = NullPtr
  THEN [s |-> NullDereference(s), ok |-> FALSE]
  ELSE IF oom
       THEN [s |-> RegisterError(s, "memory_allocation_error"), ok |-> FALSE]
       ELSE [s |-> [s EXCEPT !.alloc = AddEmptyAllocation(@, s.nodes[r].dev)], ok |-> TRUE]

\* the allocator returns a null pointer when oom holds
EnsureAllocationExists(s, r, oom) ==
  IF ~HasAllocation(s.alloc, s.nodes[r].dev)
  THEN IF GetAllocator(BackendOf(s.nodes[r].dev), s.nodes[r].dev) = NullPtr
       THEN [s |-> NullDereference(s), ok |-> FALSE]
       ELSE IF oom
            THEN [s |-> RegisterError(s, "memory_allocation_error"), ok |-> FALSE]
            ELSE [s |-> [s EXCEPT !.alloc = AddEmptyAllocation(@, s.nodes[r].dev)], ok |-> TRUE]
  ELSE [s |-> s, ok |-> TRUE]

SelectExecutor_ignores_preference(nd, op) == GetExecutor(BackendOf(nd.dev), nd.dev)

SelectExecutor(nd, op) ==
  IF op.pref # NoBackend THEN GetExecutor(op.pref, nd.dev)
  ELSE GetExecutor(BackendOf(nd.dev), nd.dev)

RemoveComplete_removes_submitted(ns, os, rq) == SelectSeq(rq, LAMBDA e : ~IsSubmitted(ns[e]))

RemoveComplete(ns, os, rq) == SelectSeq(rq, LAMBDA e : ~IsComplete(ns, os, e))

RECURSIVE Sort(_)
Sort(q) == IF q = << >> THEN << >>
           ELSE LET m == CHOOSE i \in 1 .. Len(q) : \A j \in 1 .. Len(q) : q[i] <= q[j]
                IN <<q[m]>> \o Sort(SubSeq(q, 1, m - 1) \o SubSeq(q, m + 1, Len(q)))

Unique(q) == SelectSeq([i \in 1 .. Len(q) |-> IF i > 1 /\ q[i] = q[i - 1] THEN 0 ELSE q[i]],
                       LAMBDA e : e # 0)

CompressRequirements_no_unique(ns, os, rq) == Sort(RemoveComplete(ns, os, rq))

CompressRequirements(ns, os, rq) == Unique(Sort(RemoveComplete(ns, os, rq)))

\* executor->submit_directly: enqueue, give the node its completion event
SubmitDirectly(s, ex, n, op, preds) ==
  [s EXCEPT !.ops = Append(@, [node |-> n, kind |-> op.kind, src |-> op.src,
                               srcoff |-> op.srcoff, dst |-> op.dst, dstoff |-> op.dstoff,
                               extent |-> op.extent, executor |-> ex, preds |-> preds,
                               wascomplete |-> {p \in 1 .. Len(s.nodes) :
                                                  IsComplete(s.nodes, s.ops, p)},
                               own |-> ~IsRequirement(s.nodes[n]), done |-> FALSE]),
            !.nodes[n] = MarkSubmitted(@, Len(s.ops) + 1)]

RtSubmit(s, ex, n, op) ==
  IF ex = NullPtr THEN NullDereference([s EXCEPT !.nodes[n] = AssignToExecutor(@, ex)])
  ELSE SubmitDirectly([s EXCEPT !.nodes[n] = AssignToExecutor(@, ex)], ex, n, op,
                      CompressRequirements(s.nodes, s.ops, NonvirtualRequirements(s.nodes, n)))

\* the copy just handed to an executor is one of the copies of requirement r
CopyIssued(s, r) ==
  IF s.crashed THEN s ELSE [s EXCEPT !.nodes[r].copies = Append(@, Len(s.ops))]

ExplicitOpHandler(s, r, op) ==
  IF ~IsDataTransfer(op) THEN [s EXCEPT !.fail = TRUE]
  ELSE CopyIssued(RtSubmit(s, SelectExecutor(s.nodes[r], op), r, op), r)

UpdateFrom_last_source(s, r, region, sources) ==
  IF sources = << >>
  THEN [RegisterError(s, "no_update_source") EXCEPT !.nodes[r] = Cancel(@), !.stop = TRUE]
  ELSE ExplicitOpHandler(s, r, MemcpyOperation(sources[Len(sources)], s.nodes[r].dev, region))

UpdateFrom(s, r, region, sources) ==
  IF sources = << >>
  THEN [RegisterError(s, "no_update_source") EXCEPT !.nodes[r] = Cancel(@), !.stop = TRUE]
  ELSE ExplicitOpHandler(s, r, MemcpyOperation(sources[1], s.nodes[r].dev, region))

RECURSIVE UpdateLoop(_, _, _, _)
UpdateLoop(s, r, regions, i) ==
  IF i > Len(regions) \/ s.crashed \/ s.stop THEN s
  ELSE UpdateLoop(UpdateFrom(s, r, regions[i],
                             GetUpdateSourceCandidates(s.valid, s.alloc, s.nodes[r].dev,
                                                       regions[i])),
                  r, regions, i + 1)

ForEachExplicitOperation(s, r) ==
  IF IsSubmitted(s.nodes[r]) THEN s
  ELSE IF ~IsRequirement(s.nodes[r]) THEN ExplicitOpHandler(s, r, OwnOperation(s.nodes[r]))
  ELSE UpdateLoop(s, r, GetOutdatedRegions(s.valid, s.nodes[r].dev, s.nodes[r].rect), 1)

UpdateTracker_always_valid(v, mode, dev, rect) == MarkRangeValid(v, dev, rect)

UpdateTracker_always_current(v, mode, dev, rect) == MarkRangeCurrent(v, dev, rect)

UpdateTracker(v, mode, dev, rect) ==
  IF mode = "read" THEN MarkRangeValid(v, dev, rect) ELSE MarkRangeCurrent(v, dev, rect)

\* bookkeeping of one resolution, for the properties below: s0 is the
\* state before and s1 the state after the resolution of requirement r
Resolution(s0, s1, r, outcome) ==
  [req |-> r, dev |-> s0.nodes[r].dev, mode |-> s0.nodes[r].mode, rect |-> s0.nodes[r].rect,
   pre |-> s0.valid, post |-> s1.valid,
   outdated |-> GetOutdatedRegions(s0.valid, s0.nodes[r].dev, s0.nodes[r].rect),
   copies |-> [k \in 1 .. (Len(s1.ops) - Len(s0.ops)) |-> Len(s0.ops) + k],
   writers |-> {s0.writer[c] : c \in {x \in RectCells(s0.nodes[r].rect) :
                                       /\ s0.writer[x] \notin {NoDev, s0.nodes[r].dev}
                                       /\ s0.nodes[r].dev \notin s0.since[x]}},
   outcome |-> outcome]

Touch(s, mode, dev, rect) ==
  IF mode = "read"
  THEN [s EXCEPT !.since = [c \in Cells |-> IF c \in RectCells(rect)
                                            THEN @[c] \cup {dev} ELSE @[c]]]
  ELSE [s EXCEPT !.since = [c \in Cells |-> IF c \in RectCells(rect) THEN {} ELSE @[c]],
                 !.writer = [c \in Cells |-> IF c \in RectCells(rect) THEN dev ELSE @[c]]]

Logged(s0, s1, r, outcome) ==
  [(IF outcome = "ok" THEN Touch(s1, s0.nodes[r].mode, s0.nodes[r].dev, s0.nodes[r].rect)
    ELSE s1)
   EXCEPT !.res = Append(@, Resolution(s0, s1, r, outcome)), !.stop = FALSE]

\* the tail of submit_requirement, after the copies have been issued
FinishRequirement(s0, s, r) ==
  IF s.crashed THEN [s |-> Logged(s0, s, r, "crashed"), ok |-> FALSE, err |-> "crashed"]
  ELSE IF s.fail THEN [s |-> Logged(s0, s, r, "not_data_transfer"), ok |-> FALSE,
                       err |-> "feature_not_supported"]
  ELSE IF s.nodes[r].event = NoEvent
  THEN [s |-> Logged(s0, [s EXCEPT !.nodes[r] = MarkVirtuallySubmitted(@)], r,
                     IF s.stop THEN "no_update_source" ELSE "ok"),
        ok |-> TRUE, err |-> "success"]
  ELSE [s |-> Logged(s0, [s EXCEPT !.valid = UpdateTracker(@, s.nodes[r].mode,
                                                          s.nodes[r].dev, s.nodes[r].rect)],
                     r, IF s.stop THEN "no_update_source" ELSE "ok"),
        ok |-> TRUE, err |-> "success"]

\* submit_requirement once the allocation has been looked after
ResolveAllocated(s0, a, r) ==
  IF a.s.crashed THEN [s |-> Logged(s0, a.s, r, "crashed"), ok |-> FALSE, err |-> "crashed"]
  ELSE IF ~a.ok THEN [s |-> Logged(s0, a.s, r, "allocation_failed"), ok |-> FALSE,
                      err |-> "memory_allocation_error"]
  ELSE IF ~IsDiscard(s0.nodes[r].mode)
  THEN FinishRequirement(s0, ForEachExplicitOperation(InitializeMemoryAccess(a.s, r), r), r)
  ELSE FinishRequirement(s0, InitializeMemoryAccess(a.s, r), r)

SubmitRequirement_resolves_again(s, r, oom) ==
  IF ~IsRequirement(s.nodes[r])
  THEN [s |-> s, ok |-> TRUE, err |-> "success"]
  ELSE ResolveAllocated(s, EnsureAllocationExists(s, r, oom), r)

SubmitRequirement(s, r, oom) ==
  IF ~IsRequirement(s.nodes[r]) \/ IsSubmitted(s.nodes[r])
  THEN [s |-> s, ok |-> TRUE, err |-> "success"]
  ELSE ResolveAllocated(s, EnsureAllocationExists(s, r, oom), r)

Aborted(s, n) == [AbortSubmission(s, n) EXCEPT !.aborted = TRUE]

\* what submit does with the result res of submit_requirement
AfterRequirement(res, n) ==
  IF res.s.crashed THEN [s |-> res.s, ok |-> FALSE]
  ELSE IF ~res.ok THEN [s |-> Aborted(RegisterError(res.s, res.err), n), ok |-> FALSE]
  ELSE [s |-> res.s, ok |-> TRUE]

RECURSIVE RequirementLoop_tolerates_unsubmitted(_, _, _, _)
RequirementLoop_tolerates_unsubmitted(l, n, i, oom) ==
  IF ~l.ok \/ i > Len(l.s.nodes[n].reqs) THEN l
  ELSE IF ~IsRequirement(l.s.nodes[l.s.nodes[n].reqs[i]])
       THEN RequirementLoop_tolerates_unsubmitted(l, n, i + 1, oom)
       ELSE RequirementLoop_tolerates_unsubmitted(
              AfterRequirement(SubmitRequirement(l.s, l.s.nodes[n].reqs[i], oom), n),
              n, i + 1, oom)

RECURSIVE RequirementLoop_no_return(_, _, _, _)
RequirementLoop_no_return(l, n, i, oom) ==
  IF ~l.ok \/ i > Len(l.s.nodes[n].reqs) THEN l
  ELSE IF ~IsRequirement(l.s.nodes[l.s.nodes[n].reqs[i]])
       THEN IF ~IsSubmitted(l.s.nodes[l.s.nodes[n].reqs[i]])
            THEN RequirementLoop_no_return(
                   [s |-> Aborted(RegisterError(l.s, "feature_not_supported"), n), ok |-> TRUE],
                   n, i + 1, oom)
            ELSE RequirementLoop_no_return(l, n, i + 1, oom)
       ELSE RequirementLoop_no_return(
              AfterRequirement(SubmitRequirement(l.s, l.s.nodes[n].reqs[i], oom), n),
              n, i + 1, oom)

RECURSIVE RequirementLoop(_, _, _, _)
RequirementLoop(l, n, i, oom) ==
  IF ~l.ok \/ i > Len(l.s.nodes[n].reqs) THEN l
  ELSE IF ~IsRequirement(l.s.nodes[l.s.nodes[n].reqs[i]])
       THEN IF ~IsSubmitted(l.s.nodes[l.s.nodes[n].reqs[i]])
            THEN [s |-> Aborted(RegisterError(l.s, "feature_not_supported"), n), ok |-> FALSE]
            ELSE RequirementLoop(l, n, i + 1, oom)
       ELSE RequirementLoop(AfterRequirement(SubmitRequirement(l.s, l.s.nodes[n].reqs[i], oom), n),
                            n, i + 1, oom)

AssignDevices(s, n) ==
  [s EXCEPT !.nodes =
     [i \in 1 .. Len(s.nodes) |->
        IF i = n THEN AssignToDevice(s.nodes[i], s.nodes[n].hint)
        ELSE IF \E k \in 1 .. Len(s.nodes[n].reqs) : s.nodes[n].reqs[k] = i
             THEN AssignDevicesOrDefault(s.nodes[i], s.nodes[n].hint)
             ELSE s.nodes[i]]]

RegisterSubmittedOps(s, n) == [s EXCEPT !.registry = Append(@, n)]

\* the node's own operation has been handed to its executor
Dispatched(s) ==
  IF s.crashed THEN [s |-> s, ok |-> FALSE]
  ELSE [s |-> [s EXCEPT !.own = Len(s.ops)], ok |-> TRUE]

\* the last steps of submit, once the requirement list has been walked
SubmitNode(l, n, oom) ==
  IF ~l.ok THEN l
  ELSE IF IsRequirement(l.s.nodes[n])
       THEN AfterRequirement(SubmitRequirement(l.s, n, oom), n)
       ELSE Dispatched(RtSubmit(l.s, SelectExecutor(l.s.nodes[n], OwnOperation(l.s.nodes[n])),
                                n, OwnOperation(l.s.nodes[n])))

Registered_always(l, n) == RegisterSubmittedOps(l.s, n)

Registered(l, n) == IF l.ok THEN RegisterSubmittedOps(l.s, n) ELSE l.s

SchedulerSubmit_assigns_before_check(s, n, oom) ==
  IF s.nodes[n].hint = NoDev
  THEN Aborted(RegisterError(AssignDevices(s, n), "feature_not_supported"), n)
  ELSE Registered(SubmitNode(RequirementLoop([s |-> AssignDevices(s, n), ok |-> TRUE], n, 1, oom),
                             n, oom), n)

SchedulerSubmit(s, n, oom) ==
  IF s.nodes[n].hint = NoDev
  THEN Aborted(RegisterError(s, "feature_not_supported"), n)
  ELSE Registered(SubmitNode(RequirementLoop([s |-> AssignDevices(s, n), ok |-> TRUE], n, 1, oom),
                             n, oom), n)

-----------------------------------------------------------------------------
(* The program: the graph builder has constructed the nodes and their      *)
(* edges; submit is called on nodes; executors run what was handed to them *)

NoCall == [node |-> 0, res |-> << >>, aborted |-> FALSE, own |-> 0]

\* a buffer constructed from host data, a buffer without data, and a
\* buffer that has been read on a second device
FreshTrackers ==
  { [v |-> [d \in Devices |-> IF d = 1 THEN Cells ELSE {}], al |-> <<1>>],
    [v |-> [d \in Devices |-> {}], al |-> << >>],
    [v |-> [d \in Devices |-> IF d = 3 THEN {} ELSE Cells], al |-> <<1, 2>>] }

\* every tracker state over the two devices that have an allocator
AllTrackers ==
  { [v |-> [d \in Devices |-> IF d = 1 THEN a ELSE IF d = 2 THEN b ELSE {}],
     al |-> SortedSeq(h)] :
       <<a, b, h>> \in {t \in (SUBSET Cells) \X (SUBSET Cells) \X (SUBSET {1, 2}) :
                          /\ (t[1] # {} => 1 \in t[3])
                          /\ (t[2] # {} => 2 \in t[3])} }

ReqLists(n) == UNION {[1 .. k -> 1 .. n] : k \in 0 .. MaxReqs}

\* the nodes the graph builder can append to a graph of n nodes; their
\* requirements access the whole buffer or one cell in its interior
NodeConfigs(n) ==
  LET hints == {NoDev} \cup Devices IN
  {NewNode("kernel", h, p, q, "read", WholeBuffer) :
     <<h, p, q>> \in hints \X {NoBackend, "ze", "cuda"} \X ReqLists(n)}
  \cup {NewNode("memcpy", h, NoBackend, q, "read", WholeBuffer) :
     <<h, q>> \in hints \X ReqLists(n)}
  \cup {NewNode("requirement", h, NoBackend, q, m, r) :
     <<h, q, m, r>> \in hints \X ReqLists(n) \X Modes \X {WholeBuffer, InteriorCell}}

\* a kernel bound to a device with one requirement over any rectangle
RegionGraphs ==
  { <<NewNode("requirement", NoDev, NoBackend, << >>, m, r),
      NewNode("kernel", h, NoBackend, <<1>>, "read", WholeBuffer)>> :
      <<m, r, h>> \in Modes \X Rects \X {1, 2} }

\* two nodes without requirements of their own and a third node that
\* lists them: a kernel bound to device 1, a read requirement without
\* binding and a write requirement bound to device 2, all on the whole buffer
ListRoots ==
  { NewNode("kernel", 1, NoBackend, << >>, "read", WholeBuffer),
    NewNode("requirement", NoDev, NoBackend, << >>, "read", WholeBuffer),
    NewNode("requirement", 2, NoBackend, << >>, "write", WholeBuffer) }

ListGraphs ==
  { <<a, b, NewNode(k, h, NoBackend, q, "read", WholeBuffer)>> :
      <<a, b, k, h, q>> \in ListRoots \X ListRoots \X {"kernel", "requirement"}
                              \X ({NoDev} \cup Devices) \X ReqLists(2) }

\* a requirement without binding that two kernels list, each kernel bound
\* to a device of its own
SharedGraphs ==
  { <<NewNode("requirement", NoDev, NoBackend, << >>, m, r),
      NewNode("kernel", h1, NoBackend, <<1>>, "read", WholeBuffer),
      NewNode("kernel", h2, NoBackend, <<1>>, "read", WholeBuffer)>> :
      <<m, r, h1, h2>> \in Modes \X {WholeBuffer, InteriorCell} \X {1, 2} \X {1, 2} }

\* no concurrent submit calls
NoPar == [th |-> << >>, valid |-> << >>, alloc |-> << >>, init |-> << >>]

\* the Level Zero hardware manager has found no device, no handle has
\* been looked up
NoZe == [devices |-> << >>, handle |-> 0, result |-> "none", out |-> << >>]

InitCommon ==
  /\ par = NoPar
  /\ ze = NoZe
  /\ ops = << >>
  /\ errors = << >>
  /\ registry = << >>
  /\ crashed = FALSE
  /\ calls = 0
  /\ call = NoCall
  /\ writer = [c \in Cells |-> NoDev]
  /\ since = [c \in Cells |-> {}]

Init ==
  /\ \E a \in NodeConfigs(0), b \in NodeConfigs(1) : nodes = <<a, b>>
  /\ \E t \in FreshTrackers : valid = t.v /\ alloc = t.al
  /\ InitCommon

InitRegion ==
  /\ nodes \in RegionGraphs
  /\ \E t \in AllTrackers : valid = t.v /\ alloc = t.al
  /\ InitCommon

InitList ==
  /\ nodes \in ListGraphs
  /\ \E t \in FreshTrackers : valid = t.v /\ alloc = t.al
  /\ InitCommon

Submit(n, oom) ==
  /\ ~crashed
  /\ calls < MaxCalls
  /\ n \in 1 .. Len(nodes)
  /\ \E s1 \in {SchedulerSubmit([nodes |-> nodes, ops |-> ops, valid |-> valid,
                                 alloc |-> alloc, errors |-> errors, registry |-> registry,
                                 crashed |-> FALSE, writer |-> writer, since |-> since,
                                 res |-> << >>, fail |-> FALSE, stop |-> FALSE,
                                 aborted |-> FALSE, own |-> 0], n, oom)} :
        /\ nodes' = s1.nodes
        /\ ops' = s1.ops
        /\ valid' = s1.valid
        /\ alloc' = s1.alloc
        /\ errors' = s1.errors
        /\ registry' = s1.registry
        /\ crashed' = s1.crashed
        /\ writer' = s1.writer
        /\ since' = s1.since
        /\ call' = [node |-> n, res |-> s1.res, aborted |-> s1.aborted, own |-> s1.own]
  /\ calls' = calls + 1
  /\ UNCHANGED <<par, ze>>

\* an executor runs an operation once all nodes of its predecessor list are complete
Execute(o) ==
  /\ ~crashed
  /\ o \in 1 .. Len(ops)
  /\ ~ops[o].done
  /\ \A k \in 1 .. Len(ops[o].preds) : IsComplete(nodes, ops, ops[o].preds[k])
  /\ ops' = [ops EXCEPT ![o].done = TRUE]
  /\ UNCHANGED <<nodes, valid, alloc, errors, registry, crashed, calls, call, writer, since,
                 par, ze>>

Next ==
  \/ \E n \in 1 .. Len(nodes), oom \in BOOLEAN : Submit(n, oom)
  \/ \E o \in 1 .. Len(ops) : Execute(o)

Spec == Init /\ [][Next]_vars

SpecRegion == InitRegion /\ [][Next]_vars

SpecList == InitList /\ [][Next]_vars

InitShared ==
  /\ nodes \in SharedGraphs
  /\ \E t \in FreshTrackers : valid = t.v /\ alloc = t.al
  /\ InitCommon

SpecShared == InitShared /\ [][Next]_vars

\* executors make progress: an operation whose predecessors are complete
\* is eventually run
SpecListFair == SpecList /\ WF_vars(\E o \in 1 .. Len(ops) : Execute(o))

-----------------------------------------------------------------------------
(* Two submit calls that run concurrently, one per thread.  Thread t       *)
(* submits node 2t, whose list holds requirement 2t - 1; the requirement   *)
(* of thread t is on data region t.  The region of thread 1 is held in     *)
(* valid and alloc, the region of thread 2 in par.valid and par.alloc.     *)
(* A step of a thread is one access to an object the threads share (the    *)
(* executor's queue, the error sink, the registry) together with the       *)
(* thread's own work up to it.  The shared objects take one call at a      *)
(* time; no node is bound to the Level Zero device.                        *)

Threads == {1, 2}

NodeOf(t) == 2 * t

NodesOf(t) == {2 * t - 1, 2 * t}

RegionOf_shared(t) == 1

RegionOf(t) == t

RegionValid(g) == IF g = 1 THEN valid ELSE par.valid

RegionAlloc(g) == IF g = 1 THEN alloc ELSE par.alloc

\* the program state as the submit call of thread t sees it
View(t) ==
  [nodes |-> nodes, ops |-> ops, valid |-> RegionValid(RegionOf(t)),
   alloc |-> RegionAlloc(RegionOf(t)), errors |-> errors, registry |-> registry,
   crashed |-> FALSE, writer |-> writer, since |-> since, res |-> << >>, fail |-> FALSE,
   stop |-> par.th[t].stop, aborted |-> par.th[t].aborted, own |-> 0]

\* thread t has brought the program to s1 and is now at th1
Commit(t, s1, th1) ==
  /\ nodes' = s1.nodes
  /\ ops' = s1.ops
  /\ errors' = s1.errors
  /\ registry' = s1.registry
  /\ valid' = IF RegionOf(t) = 1 THEN s1.valid ELSE valid
  /\ alloc' = IF RegionOf(t) = 1 THEN s1.alloc ELSE alloc
  /\ par' = [par EXCEPT !.th[t] = [th1 EXCEPT !.stop = s1.stop, !.aborted = s1.aborted],
                        !.valid = IF RegionOf(t) = 1 THEN @ ELSE s1.valid,
                        !.alloc = IF RegionOf(t) = 1 THEN @ ELSE s1.alloc]
  /\ UNCHANGED <<crashed, calls, call, writer, since, ze>>

\* the requirement the call of thread t is resolving: entry i of the list
\* of its node, and after the list the node itself
Current(t) ==
  IF par.th[t].i <= Len(nodes[NodeOf(t)].reqs) THEN nodes[NodeOf(t)].reqs[par.th[t].i]
  ELSE NodeOf(t)

\* where the call goes on when the requirement at hand is settled
Advance(t) ==
  IF par.th[t].i <= Len(nodes[NodeOf(t)].reqs)
  THEN [par.th[t] EXCEPT !.pc = "requirement", !.i = @ + 1]
  ELSE [par.th[t] EXCEPT !.pc = "register"]

\* submit up to the loop over the requirements
ParStart(t) ==
  /\ par.th[t].pc = "start"
  /\ IF nodes[NodeOf(t)].hint = NoDev
     THEN Commit(t, Aborted(RegisterError(View(t), "feature_not_supported"), NodeOf(t)),
                 [par.th[t] EXCEPT !.pc = "done"])
     ELSE Commit(t, AssignDevices(View(t), NodeOf(t)),
                 [par.th[t] EXCEPT !.pc = "requirement", !.i = 1])

\* submit_requirement up to the copies, for a requirement that has its allocation
ParAllocated(t, s1) ==
  Commit(t, s1,
         [par.th[t] EXCEPT !.pc = "copy", !.k = 1,
                           !.regions = IF IsDiscard(s1.nodes[Current(t)].mode) THEN << >>
                                       ELSE GetOutdatedRegions(s1.valid, s1.nodes[Current(t)].dev,
                                                               s1.nodes[Current(t)].rect)])

\* the result a of ensure_allocation_exists
ParEnsured(t, a) ==
  IF a.ok THEN ParAllocated(t, InitializeMemoryAccess(a.s, Current(t)))
  ELSE Commit(t, a.s, [par.th[t] EXCEPT !.pc = "failed"])

\* one round of the loop over the requirements, or the node's own
\* requirement after it, up to the first copy
ParRequirement(t) ==
  /\ par.th[t].pc = "requirement"
  /\ IF ~IsRequirement(nodes[Current(t)])
     THEN IF Current(t) = NodeOf(t) /\ par.th[t].i > Len(nodes[NodeOf(t)].reqs)
          THEN Commit(t, View(t), [par.th[t] EXCEPT !.pc = "own"])
          ELSE IF ~IsSubmitted(nodes[Current(t)])
               THEN Commit(t, Aborted(RegisterError(View(t), "feature_not_supported"), NodeOf(t)),
                           [par.th[t] EXCEPT !.pc = "done"])
               ELSE Commit(t, View(t), Advance(t))
     ELSE IF IsSubmitted(nodes[Current(t)])
          THEN Commit(t, View(t), Advance(t))
          ELSE ParEnsured(t, EnsureAllocationExists(View(t), Current(t), par.th[t].oom))

\* submit registers the failed result and aborts
ParFailed(t) ==
  /\ par.th[t].pc = "failed"
  /\ Commit(t, Aborted(RegisterError(View(t), "memory_allocation_error"), NodeOf(t)),
            [par.th[t] EXCEPT !.pc = "done"])

\* one round of the loop over the outdated regions
ParCopy(t) ==
  /\ par.th[t].pc = "copy"
  /\ par.th[t].k <= Len(par.th[t].regions)
  /\ ~par.th[t].stop
  /\ Commit(t, UpdateFrom(View(t), Current(t), par.th[t].regions[par.th[t].k],
                          GetUpdateSourceCandidates(View(t).valid, View(t).alloc,
                                                    nodes[Current(t)].dev,
                                                    par.th[t].regions[par.th[t].k])),
            [par.th[t] EXCEPT !.k = @ + 1])

\* the tail of submit_requirement
ParFinish(t) ==
  /\ par.th[t].pc = "copy"
  /\ par.th[t].k > Len(par.th[t].regions) \/ par.th[t].stop
  /\ Commit(t, FinishRequirement(View(t), View(t), Current(t)).s, Advance(t))

\* the node's own operation is handed to its executor
ParOwn(t) ==
  /\ par.th[t].pc = "own"
  /\ Commit(t, RtSubmit(View(t), SelectExecutor(nodes[NodeOf(t)], OwnOperation(nodes[NodeOf(t)])),
                        NodeOf(t), OwnOperation(nodes[NodeOf(t)])),
            [par.th[t] EXCEPT !.pc = "register"])

ParRegister(t) ==
  /\ par.th[t].pc = "register"
  /\ Commit(t, RegisterSubmittedOps(View(t), NodeOf(t)), [par.th[t] EXCEPT !.pc = "done"])

NextPar ==
  \E t \in Threads :
    \/ ParStart(t)
    \/ ParRequirement(t)
    \/ ParFailed(t)
    \/ ParCopy(t)
    \/ ParFinish(t)
    \/ ParOwn(t)
    \/ ParRegister(t)

\* a region that one device holds in full and a second device in its
\* interior only
StaleBorderTracker ==
  [v |-> [d \in Devices |-> IF d = 1 THEN Cells ELSE IF d = 2 THEN RectCells(InteriorCell) ELSE {}],
   al |-> <<1, 2>>]

ParTrackers == FreshTrackers \cup {StaleBorderTracker}

\* the requirement and the node of thread t
ParGraph(t, m, r, h) ==
  <<NewNode("requirement", NoDev, NoBackend, << >>, m, r),
    NewNode("kernel", h, NoBackend, <<2 * t - 1>>, "read", WholeBuffer)>>

ParGraphs ==
  { ParGraph(1, m1, r1, h1) \o ParGraph(2, m2, WholeBuffer, h2) :
      <<m1, r1, h1, m2, h2>> \in {"read", "discard_write"} \X {WholeBuffer, InteriorCell}
                                   \X {1, 2} \X {"read", "write"} \X {NoDev, 1, 2} }

NewThread(oom) ==
  [pc |-> "start", i |-> 0, k |-> 0, regions |-> << >>, stop |-> FALSE, aborted |-> FALSE,
   oom |-> oom]

InitPar ==
  /\ nodes \in ParGraphs
  /\ \E t1, t2 \in ParTrackers, o1, o2 \in BOOLEAN :
       /\ valid = t1.v
       /\ alloc = t1.al
       /\ par = [th |-> <<NewThread(o1), NewThread(o2)>>, valid |-> t2.v, alloc |-> t2.al,
                 init |-> [nodes |-> nodes, valid |-> <<t1.v, t2.v>>, alloc |-> <<t1.al, t2.al>>]]
  /\ ops = << >>
  /\ errors = << >>
  /\ registry = << >>
  /\ crashed = FALSE
  /\ calls = 0
  /\ call = NoCall
  /\ writer = [c \in Cells |-> NoDev]
  /\ since = [c \in Cells |-> {}]
  /\ ze = NoZe

SpecPar == InitPar /\ [][NextPar]_vars

-----------------------------------------------------------------------------
(* The Level Zero hardware manager: _devices is the list of the devices    *)
(* found at construction, each with its device handle; device i of the     *)
(* code is entry i + 1 of the list.                                        *)

Handles == 1 .. NumHandles

GetNumDevices(devs) == Len(devs)

GetDeviceId(index) == [backend |-> "ze", id |-> index]

RECURSIVE FindDevice_last_match(_, _, _, _)
FindDevice_last_match(devs, d, out, i) ==
  IF i >= Len(devs) THEN [ok |-> FALSE, out |-> out]
  ELSE IF devs[Len(devs) - i] = d THEN [ok |-> TRUE, out |-> GetDeviceId(Len(devs) - i - 1)]
  ELSE FindDevice_last_match(devs, d, out, i + 1)

\* the loop of device_handle_to_device_id from index i on
RECURSIVE FindDevice(_, _, _, _)
FindDevice(devs, d, out, i) ==
  IF i >= Len(devs) THEN [ok |-> FALSE, out |-> out]
  ELSE IF devs[i + 1] = d THEN [ok |-> TRUE, out |-> GetDeviceId(i)]
  ELSE FindDevice(devs, d, out, i + 1)

DeviceHandleToDeviceId(devs, d, out) == FindDevice(devs, d, out, 0)

\* a caller looks up handle d, passing the device id it holds as out
LookUp(d) ==
  /\ d \in Handles
  /\ \E r \in {DeviceHandleToDeviceId(ze.devices, d, ze.out)} :
       ze' = [ze EXCEPT !.handle = d,
                        !.result = IF r.ok THEN "success" ELSE "error",
                        !.out = r.out]
  /\ UNCHANGED <<nodes, ops, valid, alloc, errors, registry, crashed, calls, call, writer,
                 since, par>>

NextZe == \E d \in Handles : LookUp(d)

DeviceLists == UNION {[1 .. k -> Handles] : k \in 0 .. MaxZeDevices}

InitZe ==
  /\ \E devs \in DeviceLists : ze = [NoZe EXCEPT !.devices = devs]
  /\ nodes = << >>
  /\ valid = [d \in Devices |-> {}]
  /\ alloc = << >>
  /\ par = NoPar
  /\ ops = << >>
  /\ errors = << >>
  /\ registry = << >>
  /\ crashed = FALSE
  /\ calls = 0
  /\ call = NoCall
  /\ writer = [c \in Cells |-> NoDev]
  /\ since = [c \in Cells |-> {}]

SpecZe == InitZe /\ [][NextZe]_vars

-----------------------------------------------------------------------------
(* Properties.  call.res lists the requirements resolved by the most       *)
(* recent submit call, each with the tracker before (pre) and after (post) *)
(* its resolution and the copies handed to executors for it.               *)

Resolved(i) == call.res[i]

CopyOf(r, k) == ops[r.copies[k]]

\* C1: a read on device Y that follows a write on device X over an
\* overlapping rectangle (Y not having accessed the overlap since) hands a
\* copy sourced from X to an executor, and the read requirement is not
\* complete before that copy is done.
C1_ReadAfterWriteCopiesFromWriter ==
  \A i \in 1 .. Len(call.res) :
    (Resolved(i).mode = "read" /\ Resolved(i).outcome = "ok") =>
      \A x \in Resolved(i).writers :
        \E k \in 1 .. Len(Resolved(i).copies) :
          /\ CopyOf(Resolved(i), k).src = x
          /\ (IsComplete(nodes, ops, Resolved(i).req) => CopyOf(Resolved(i), k).done)

\* C2: the own operation of a node has not run while a copy issued for a
\* requirement of its list is still pending (executors run an operation
\* only after the nodes of its predecessor list are complete; requirements
\* cancelled by an error are left aside).
C2_OwnOperationAfterAllCopies ==
  \A o \in 1 .. Len(ops) :
    (ops[o].own /\ ops[o].done) =>
      \A j \in 1 .. Len(nodes[ops[o].node].reqs) :
        LET rq == nodes[nodes[ops[o].node].reqs[j]]
        IN rq.cancelled \/ \A k \in 1 .. Len(rq.copies) : ops[rq.copies[k]].done

\* C3: when an outdated rectangle has no update source, the error is
\* recorded, the requirement and the submitted node are cancelled and the
\* node's own operation is not handed to an executor.
C3_NoSourceAbortsSubmission ==
  \A i \in 1 .. Len(call.res) :
    Resolved(i).outcome = "no_update_source" =>
      /\ \E e \in 1 .. Len(errors) : errors[e] = "no_update_source"
      /\ nodes[Resolved(i).req].cancelled
      /\ nodes[call.node].cancelled
      /\ call.own = 0
      /\ ~crashed

\* C4: after a discard access on device D over R has been resolved, R is
\* valid on D and outdated on every other device.
C4_DiscardMarksCurrent ==
  \A i \in 1 .. Len(call.res) :
    (Resolved(i).mode \in {"discard_write", "discard_read_write"} /\ Resolved(i).outcome = "ok") =>
      /\ RectCells(Resolved(i).rect) \subseteq Resolved(i).post[Resolved(i).dev]
      /\ \A y \in Devices \ {Resolved(i).dev} :
           Resolved(i).post[y] \cap RectCells(Resolved(i).rect) = {}

\* C5: resolving a discard access hands no copy to any executor.
C5_DiscardIssuesNoCopy ==
  \A i \in 1 .. Len(call.res) :
    Resolved(i).mode \in {"discard_write", "discard_read_write"} =>
      /\ Resolved(i).copies = << >>
      /\ \A o \in 1 .. Len(ops) : ops[o].node # Resolved(i).req

C5_Witness ==
  \E i \in 1 .. Len(call.res) :
    /\ Resolved(i).mode = "discard_read_write"
    /\ Resolved(i).outcome = "ok"
    /\ Resolved(i).pre[Resolved(i).dev] = {}
    /\ \E y \in Devices \ {Resolved(i).dev} : Resolved(i).pre[y] = Cells

\* C6: after a write or read-write access on device D over R has been
\* resolved, D is valid over all of R and no other device is valid on any
\* part of R.
C6_WriteMakesExclusive ==
  \A i \in 1 .. Len(call.res) :
    (Resolved(i).mode \in {"write", "read_write"} /\ Resolved(i).outcome = "ok") =>
      /\ RectCells(Resolved(i).rect) \subseteq Resolved(i).post[Resolved(i).dev]
      /\ \A y \in Devices \ {Resolved(i).dev} :
           Resolved(i).post[y] \cap RectCells(Resolved(i).rect) = {}

\* C7: for a resolved non-discard access the copies are, in order, one per
\* outdated rectangle, each written to the assigned device over exactly that
\* rectangle; together they cover the part of R that was not valid on the
\* device and nothing else.
C7_CopiesMatchOutdatedRegions ==
  \A i \in 1 .. Len(call.res) :
    (Resolved(i).mode \in {"read", "write", "read_write"} /\ Resolved(i).outcome = "ok") =>
      /\ Len(Resolved(i).copies) = Len(Resolved(i).outdated)
      /\ \A k \in 1 .. Len(Resolved(i).copies) :
           /\ CopyOf(Resolved(i), k).dst = Resolved(i).dev
           /\ <<CopyOf(Resolved(i), k).dstoff, CopyOf(Resolved(i), k).extent>> = Resolved(i).outdated[k]
      /\ UNION {RectCells(<<CopyOf(Resolved(i), k).dstoff, CopyOf(Resolved(i), k).extent>>) :
                  k \in 1 .. Len(Resolved(i).copies)}
           = RectCells(Resolved(i).rect) \ Resolved(i).pre[Resolved(i).dev]

C7_Witness ==
  \E i \in 1 .. Len(call.res) :
    /\ Resolved(i).mode = "read_write"
    /\ Resolved(i).outcome = "ok"
    /\ Len(Resolved(i).copies) = 2
    /\ Resolved(i).pre[Resolved(i).dev] \cap RectCells(Resolved(i).rect) # {}

\* C8: after a read access on device D over R has been resolved, R is
\* valid on D and the valid set of every other device is what it was.
C8_ReadKeepsOtherDevices ==
  \A i \in 1 .. Len(call.res) :
    (Resolved(i).mode = "read" /\ Resolved(i).outcome = "ok") =>
      /\ RectCells(Resolved(i).rect) \subseteq Resolved(i).post[Resolved(i).dev]
      /\ \A y \in Devices \ {Resolved(i).dev} : Resolved(i).post[y] = Resolved(i).pre[y]

C8_Witness ==
  \E i \in 1 .. Len(call.res) :
    /\ Resolved(i).mode = "read"
    /\ Resolved(i).outcome = "ok"
    /\ Resolved(i).copies # << >>
    /\ \E y \in Devices \ {Resolved(i).dev} :
         Resolved(i).post[y] \cap RectCells(Resolved(i).rect) # {}

\* C9: a predecessor list handed to an executor names no node twice and
\* no node that was complete when the list was built.
C9_PredecessorsCompressed ==
  \A o \in 1 .. Len(ops) :
    /\ \A j, k \in 1 .. Len(ops[o].preds) : ops[o].preds[j] = ops[o].preds[k] => j = k
    /\ \A k \in 1 .. Len(ops[o].preds) : ops[o].preds[k] \notin ops[o].wascomplete

C9_Witness ==
  /\ \E o \in 1 .. Len(ops) :
       /\ Len(nodes[ops[o].node].reqs) = 2
       /\ nodes[ops[o].node].reqs[1] = nodes[ops[o].node].reqs[2]
       /\ ops[o].preds = <<nodes[ops[o].node].reqs[1]>>
  /\ \E o \in 1 .. Len(ops) :
       /\ ops[o].preds = << >>
       /\ \E j \in 1 .. Len(nodes[ops[o].node].reqs) :
            /\ nodes[ops[o].node].reqs[j] \in ops[o].wascomplete
            /\ ~nodes[nodes[ops[o].node].reqs[j]].virtual
            /\ ~nodes[nodes[ops[o].node].reqs[j]].cancelled

\* C10: a node whose executor lookup yields no executor is cancelled with
\* a feature-not-supported error, and the program does not crash.
C10_MissingExecutorIsReported ==
  \A n \in 1 .. Len(nodes) :
    nodes[n].executor = NullPtr =>
      /\ ~crashed
      /\ nodes[n].cancelled
      /\ \E e \in 1 .. Len(errors) : errors[e] = "feature_not_supported"

\* the positions of node i in the requirement list of node n
Listed(n, i) == {k \in 1 .. Len(nodes[n].reqs) : nodes[n].reqs[k] = i}

\* C11: submit on a node that is already submitted, complete or cancelled
\* changes nothing: no operation reaches an executor, no allocation is
\* made, the tracker, the node's lifecycle state and event and the recorded
\* errors are what they were.
C11_ResubmissionIsNoOp ==
  [][(calls' = calls + 1 /\ IsSubmitted(nodes[call'.node])) =>
       /\ ops' = ops
       /\ alloc' = alloc
       /\ valid' = valid
       /\ errors' = errors
       /\ nodes'[call'.node].submitted = nodes[call'.node].submitted
       /\ nodes'[call'.node].cancelled = nodes[call'.node].cancelled
       /\ nodes'[call'.node].event = nodes[call'.node].event]_vars

\* C12: submit on a node without device-binding hint records a
\* feature-not-supported error, cancels the node and the requirements of
\* its list that were not submitted, and does nothing else: no device is
\* assigned, the allocations, the tracker, the executors' queues and the
\* submission registry are what they were.
C12_MissingHintAborts ==
  [][(calls' = calls + 1 /\ nodes[call'.node].hint = NoDev) =>
       /\ errors' = Append(errors, "feature_not_supported")
       /\ nodes'[call'.node].cancelled
       /\ \A i \in 1 .. Len(nodes) :
            /\ nodes'[i].dev = nodes[i].dev
            /\ (Listed(call'.node, i) # {} /\ ~IsSubmitted(nodes[i])) => nodes'[i].cancelled
            /\ (i # call'.node /\ (Listed(call'.node, i) = {} \/ IsSubmitted(nodes[i])))
                 => nodes'[i] = nodes[i]
       /\ ops' = ops
       /\ alloc' = alloc
       /\ valid' = valid
       /\ registry' = registry]_vars

C12_Witness ==
  /\ calls > 0
  /\ nodes[call.node].hint = NoDev
  /\ nodes[call.node].cancelled
  /\ call.aborted
  /\ \E i \in 1 .. Len(nodes) : i # call.node /\ Listed(call.node, i) # {} /\ nodes[i].cancelled
  /\ ops = << >>

\* the positions of the requirement list of node n that hold a node which
\* is not a requirement and not submitted
Offenders(n) == {k \in 1 .. Len(nodes[n].reqs) :
                   /\ ~IsRequirement(nodes[nodes[n].reqs[k]])
                   /\ ~IsSubmitted(nodes[nodes[n].reqs[k]])}

FirstOffender(n) == CHOOSE k \in Offenders(n) : \A j \in Offenders(n) : k <= j

\* the operations handed to executors by the step
NewOps == {o \in 1 .. Len(ops') : o > Len(ops)}

\* the step is a submit call on node n
SubmitOf(n) == calls' = calls + 1 /\ call'.node = n

\* the step is a submit call that aborted with a usage error
UsageAbort == /\ calls' = calls + 1
              /\ call'.aborted
              /\ errors'[Len(errors')] = "feature_not_supported"

C14_UsageAbortHandsNothing ==
  [][UsageAbort => ops' = ops]_vars

\* C14: a submit call that aborts with a usage error has not handed the
\* node's own operation to an executor, nor a copy for a requirement listed
\* at or after the offending predecessor; the copies it did hand over belong
\* to requirements listed before that predecessor, and the operations of
\* earlier submissions are left untouched.
C14_UsageAbortHandsNothingLater ==
  [][UsageAbort =>
       /\ SubSeq(ops', 1, Len(ops)) = ops
       /\ call'.own = 0
       /\ \A o \in NewOps :
            /\ ops'[o].node # call'.node
            /\ ~ops'[o].own
            /\ \E k \in Listed(call'.node, ops'[o].node) : k < FirstOffender(call'.node)]_vars

C14_Witness ==
  /\ call.aborted
  /\ errors = <<"feature_not_supported">>
  /\ nodes[call.node].cancelled
  /\ Len(nodes[call.node].reqs) = 2
  /\ ~IsRequirement(nodes[nodes[call.node].reqs[2]])
  /\ Len(ops) = 1
  /\ ops[1].kind = "memcpy"
  /\ ops[1].node = nodes[call.node].reqs[1]
  /\ ~ops[1].done

\* C15: when the allocator fails for requirement R on device D, a
\* memory-allocation error is recorded, no allocation is registered for D,
\* no copy is handed over for R, the tracker is what it was, the call is
\* aborted with the node cancelled and its own operation not dispatched,
\* and nothing is resolved after the failure (no second attempt).
C15_AllocationFailureAborts ==
  \A i \in 1 .. Len(call.res) :
    Resolved(i).outcome = "allocation_failed" =>
      /\ i = Len(call.res)
      /\ \E e \in 1 .. Len(errors) : errors[e] = "memory_allocation_error"
      /\ ~HasAllocation(alloc, Resolved(i).dev)
      /\ Resolved(i).copies = << >>
      /\ \A o \in 1 .. Len(ops) : ops[o].node # Resolved(i).req
      /\ Resolved(i).post = Resolved(i).pre
      /\ valid = Resolved(i).pre
      /\ call.aborted
      /\ nodes[call.node].cancelled
      /\ call.own = 0

C15_Witness ==
  /\ Len(call.res) = 2
  /\ Resolved(1).outcome = "ok"
  /\ Resolved(2).outcome = "allocation_failed"
  /\ Resolved(2).pre[1] = Cells
  /\ nodes[call.node].kind = "kernel"
  /\ nodes[call.node].cancelled
  /\ errors[1] = "memory_allocation_error"

\* the lifecycle state, the event and the issued copies of a node
Lifecycle(nd) == <<nd.submitted, nd.cancelled, nd.virtual, nd.event, nd.copies>>

\* requirement i has been resolved by the call of the step
ResolvedInCall(i) ==
  \E j \in 1 .. Len(call'.res) :
    call'.res[j].req = i /\ call'.res[j].outcome \in {"ok", "no_update_source"}

\* C16: when submit aborts, the node ends cancelled and so does every
\* requirement of its list that was not submitted; a requirement that was
\* submitted before the call keeps its lifecycle state, event and copies,
\* one that was resolved earlier in the call is submitted and has its
\* event, the operations handed over before are all still there and the
\* tracker is as the last resolution left it.
C16_AbortKeepsWhatWasIssued ==
  [][\A n \in 1 .. Len(nodes) :
       (SubmitOf(n) /\ call'.aborted) =>
         /\ nodes'[n].cancelled
         /\ Len(errors') > Len(errors)
         /\ SubSeq(ops', 1, Len(ops)) = ops
         /\ valid' = IF call'.res = << >> THEN valid ELSE call'.res[Len(call'.res)].post
         /\ \A i \in 1 .. Len(nodes) :
              Listed(n, i) # {} =>
                IF IsSubmitted(nodes[i]) THEN Lifecycle(nodes'[i]) = Lifecycle(nodes[i])
                ELSE IF ResolvedInCall(i)
                     THEN /\ nodes'[i].submitted
                          /\ nodes'[i].event # NoEvent
                          /\ \A k \in 1 .. Len(nodes'[i].copies) :
                               ops'[nodes'[i].copies[k]].node = i
                     ELSE nodes'[i].cancelled /\ nodes'[i].event = NoEvent]_vars

C16_Witness ==
  /\ call.aborted
  /\ nodes[call.node].cancelled
  /\ Len(call.res) = 1
  /\ Resolved(1).copies # << >>
  /\ Resolved(1).pre[Resolved(1).dev] = {}
  /\ valid[Resolved(1).dev] = Cells
  /\ ~nodes[Resolved(1).req].cancelled
  /\ nodes[Resolved(1).req].event = Resolved(1).copies[1]
  /\ \E i \in 1 .. Len(nodes) :
       Listed(call.node, i) # {} /\ nodes[i].cancelled /\ nodes[i].event = NoEvent

\* C17: a submit call returns, and on return the node is cancelled or
\* submitted with a completion event.
C17_SubmitReturnsWithNodeSettled ==
  calls > 0 =>
    /\ ~crashed
    /\ \/ nodes[call.node].cancelled
       \/ nodes[call.node].submitted /\ nodes[call.node].event # NoEvent

\* C19: no step moves a node backwards in its lifecycle: a submitted node
\* stays submitted, a complete node stays complete and is not cancelled
\* later, and a cancelled node stays cancelled, keeps the event it had (or
\* none), is not marked virtually submitted (neither in a later call nor
\* later in the call that cancelled it) and has no operation handed to an
\* executor.
C19_LifecycleMonotone ==
  [][\A n \in 1 .. Len(nodes) :
       /\ nodes[n].submitted => nodes'[n].submitted
       /\ (nodes[n].dev # NoDev) => (nodes'[n].dev # NoDev)
       /\ (IsComplete(nodes, ops, n) /\ ~nodes[n].cancelled) =>
            (IsComplete(nodes', ops', n) /\ ~nodes'[n].cancelled)
       /\ (~nodes[n].cancelled /\ ~nodes[n].virtual /\ nodes'[n].cancelled) => ~nodes'[n].virtual
       /\ nodes[n].cancelled =>
            /\ nodes'[n].cancelled
            /\ nodes'[n].event = nodes[n].event
            /\ nodes'[n].virtual = nodes[n].virtual
            /\ \A o \in NewOps : ops'[o].node # n]_vars

\* the operations handed to executors that have not run yet
Pending == {o \in 1 .. Len(ops) : ~ops[o].done}

MarkedCurrent(r) == /\ r.mode # "read"
                    /\ r.copies # << >>
                    /\ r.outcome \in {"ok", "no_update_source"}

\* C20: after mark_range_current(X, R) every other device is outdated on
\* all of R, X is outdated nowhere in R, and outside R every device is
\* valid where it was.
C20_MarkCurrentIsCoherent ==
  \A i \in 1 .. Len(call.res) :
    MarkedCurrent(Resolved(i)) =>
      /\ \A y \in Devices \ {Resolved(i).dev} :
           GetOutdatedRegions(Resolved(i).post, y, Resolved(i).rect) = <<Resolved(i).rect>>
      /\ GetOutdatedRegions(Resolved(i).post, Resolved(i).dev, Resolved(i).rect) = << >>
      /\ \A d \in Devices :
           Resolved(i).post[d] \ RectCells(Resolved(i).rect)
             = Resolved(i).pre[d] \ RectCells(Resolved(i).rect)

C20_Witness ==
  \E i \in 1 .. Len(call.res) :
    /\ MarkedCurrent(Resolved(i))
    /\ Resolved(i).mode = "write"
    /\ \E y \in Devices \ {Resolved(i).dev} :
         /\ Resolved(i).pre[y] \cap RectCells(Resolved(i).rect) # {}
         /\ Resolved(i).pre[y] \ RectCells(Resolved(i).rect) # {}
         /\ Resolved(i).post[y] # {}
    /\ Resolved(i).pre[Resolved(i).dev] \ RectCells(Resolved(i).rect) # {}

\* the resolutions in which the scheduler called mark_range_valid: a read
\* access for which a copy gave the requirement an event
MarkedValid(r) == /\ r.mode = "read"
                  /\ r.copies # << >>
                  /\ r.outcome \in {"ok", "no_update_source"}

\* C21: mark_range_valid applied twice gives the tracker that one
\* application gives: for the tracker, device and rectangle of every
\* resolution, and for the tracker the scheduler's own call has left.
C21_MarkRangeValidIdempotent ==
  \A i \in 1 .. Len(call.res) :
    /\ MarkRangeValid(MarkRangeValid(Resolved(i).pre, Resolved(i).dev, Resolved(i).rect),
                      Resolved(i).dev, Resolved(i).rect)
         = MarkRangeValid(Resolved(i).pre, Resolved(i).dev, Resolved(i).rect)
    /\ MarkedValid(Resolved(i)) =>
         MarkRangeValid(Resolved(i).post, Resolved(i).dev, Resolved(i).rect) = Resolved(i).post

C21_Witness ==
  \E i \in 1 .. Len(call.res) :
    /\ MarkedValid(Resolved(i))
    /\ Resolved(i).pre[Resolved(i).dev] \cap RectCells(Resolved(i).rect) # {}
    /\ Resolved(i).post[Resolved(i).dev] # Resolved(i).pre[Resolved(i).dev]
    /\ Resolved(i).post[Resolved(i).dev] # Cells

\* the cells covered by a list of rectangles
Covered(rs) == UNION {RectCells(rs[k]) : k \in 1 .. Len(rs)}

\* rs is the complement of the valid set S within rectangle r
ComplementWithin(rs, S, r) ==
  /\ \A k \in 1 .. Len(rs) : rs[k][2] >= 1 /\ RectCells(rs[k]) \subseteq RectCells(r)
  /\ Covered(rs) \cap S = {}
  /\ Covered(rs) \cup (S \cap RectCells(r)) = RectCells(r)
  /\ \A j, k \in 1 .. Len(rs) : j # k => RectCells(rs[j]) \cap RectCells(rs[k]) = {}

\* C22: get_outdated_regions(device, rect) is the complement of the
\* device's valid set within rect, for the tracker, device and rectangle
\* of every resolution; a resolution that only queries (no copy results)
\* leaves the tracker as it was.
C22_OutdatedIsComplement ==
  \A i \in 1 .. Len(call.res) :
    /\ ComplementWithin(Resolved(i).outdated, Resolved(i).pre[Resolved(i).dev], Resolved(i).rect)
    /\ (Resolved(i).copies = << >>) => Resolved(i).post = Resolved(i).pre

C22_Witness ==
  \E i \in 1 .. Len(call.res) :
    /\ Resolved(i).outcome = "ok"
    /\ Len(Resolved(i).outdated) = 2
    /\ Resolved(i).rect = WholeBuffer
    /\ Resolved(i).pre[Resolved(i).dev] # {}

\* C23: a submit call that runs through without abort appends the node to
\* the submission registry; a call that aborts, and every other step,
\* leaves the registry as it was; so every registered node is submitted.
C23_RegisteredIffNotAborted ==
  [][/\ \A n \in 1 .. Len(nodes) :
          SubmitOf(n) =>
            IF call'.aborted \/ crashed' THEN registry' = registry
            ELSE registry' = Append(registry, n) /\ nodes'[n].submitted
      /\ (calls' = calls) => registry' = registry]_vars

C23_Witness ==
  /\ calls = 2
  /\ Len(registry) = 1
  /\ registry[1] # call.node
  /\ ~nodes[registry[1]].cancelled
  /\ call.aborted
  /\ nodes[call.node].cancelled
  /\ Len(errors) = 1

\* C25: a submit call on a node with a device-binding hint assigns the
\* node the device of its hint, every listed requirement with a hint of its
\* own the device of that hint and every other listed requirement the
\* node's device; each requirement is resolved on the device so assigned:
\* its allocation is made there, its pointer is the one of that device and
\* its copies are written there.
C25_DevicesFromHintsOrDefault ==
  [][\A n \in 1 .. Len(nodes) :
       (SubmitOf(n) /\ nodes[n].hint # NoDev) =>
         /\ nodes'[n].dev = nodes[n].hint
         /\ \A i \in 1 .. Len(nodes) :
              Listed(n, i) # {} =>
                nodes'[i].dev = IF nodes[i].hint # NoDev THEN nodes[i].hint ELSE nodes[n].hint
         /\ \A j \in 1 .. Len(call'.res) :
              /\ call'.res[j].dev = nodes'[call'.res[j].req].dev
              /\ call'.res[j].outcome \in {"ok", "no_update_source"} =>
                   /\ HasAllocation(alloc', call'.res[j].dev)
                   /\ nodes'[call'.res[j].req].ptr = call'.res[j].dev
              /\ \A k \in 1 .. Len(call'.res[j].copies) :
                   ops'[call'.res[j].copies[k]].dst = call'.res[j].dev]_vars

C25_Witness ==
  /\ calls = 1
  /\ ~call.aborted
  /\ Len(call.res) = 2
  /\ nodes[Resolved(1).req].hint = NoDev
  /\ nodes[Resolved(2).req].hint # NoDev
  /\ nodes[Resolved(2).req].hint # nodes[call.node].hint
  /\ Resolved(1).dev = nodes[call.node].hint
  /\ Resolved(2).dev = nodes[Resolved(2).req].hint
  /\ Resolved(2).copies # << >>
  /\ alloc = <<1, 2>>

\* the resolutions of the call of the step follow the order of the
\* requirement list of node n
InListOrder(n) ==
  \A j, k \in 1 .. Len(call'.res) :
    (j < k /\ call'.res[k].req # n) =>
      \E p, q \in 1 .. Len(nodes[n].reqs) :
        /\ p <= q
        /\ nodes[n].reqs[p] = call'.res[j].req
        /\ nodes[n].reqs[q] = call'.res[k].req

\* C26: within one submit call the requirements are resolved in the order
\* of the node's list, and the node's own operation is handed to an
\* executor only when every requirement of the list was resolved with
\* success and is submitted; when a requirement fails, the own operation is
\* not handed over.
C26_OwnOperationAfterAllRequirements ==
  [][\A n \in 1 .. Len(nodes) :
       SubmitOf(n) =>
         /\ InListOrder(n)
         /\ call'.own # 0 =>
              /\ \A j \in 1 .. Len(call'.res) : call'.res[j].outcome = "ok"
              /\ \A i \in 1 .. Len(nodes) :
                   Listed(n, i) # {} => nodes'[i].submitted /\ ~nodes'[i].cancelled]_vars

\* the resolution handed no operation to an executor
HandedNothing(r) == r.outcome = "ok" /\ r.copies = << >>

Predecessors(o) == {ops[o].preds[k] : k \in 1 .. Len(ops[o].preds)}

\* the copies of requirement i that were handed over before operation o
CopiesBefore(i, o) == {k \in 1 .. Len(nodes[i].copies) : nodes[i].copies[k] < o}

\* C28: the predecessor list of a node's own operation holds every
\* requirement of the node's list that had a copy issued and was not
\* complete when the operation was handed over; the predecessor list of a
\* copy issued for a requirement holds every node of the requirement's list
\* that was not complete, and so not virtual, at that moment.
C28_NoNeededPredecessorDropped ==
  \A o \in 1 .. Len(ops) :
    \A i \in 1 .. Len(nodes) :
      (Listed(ops[o].node, i) # {} /\ i \notin ops[o].wascomplete) =>
        IF ops[o].own
        THEN (IsRequirement(nodes[i]) /\ CopiesBefore(i, o) # {}) => i \in Predecessors(o)
        ELSE i \in Predecessors(o)

C28_Witness ==
  \E o \in 1 .. Len(ops) :
    /\ ~ops[o].own
    /\ ~ops[o].done
    /\ Len(ops[o].preds) = 1
    /\ IsRequirement(nodes[ops[o].preds[1]])
    /\ CopiesBefore(ops[o].preds[1], o) # {}
    /\ ~IsComplete(nodes, ops, ops[o].preds[1])

\* the update sources of the k-th outdated rectangle of resolution r
Sources(r, k) == GetUpdateSourceCandidates(r.pre, alloc, r.dev, r.outdated[k])

\* C29: the copy synthesized for an outdated rectangle reads from the first
\* entry of the candidate list of that rectangle, at the offset of that
\* entry, and writes to the requirement's assigned device; there is one
\* copy per outdated rectangle, and when a rectangle has no candidate the
\* copies stop there.
C29_FirstCandidateIsSource ==
  \A i \in 1 .. Len(call.res) :
    (~IsDiscard(Resolved(i).mode) /\ Resolved(i).outcome \in {"ok", "no_update_source"}) =>
      /\ \A k \in 1 .. Len(Resolved(i).copies) :
           /\ Sources(Resolved(i), k) # << >>
           /\ CopyOf(Resolved(i), k).src = Sources(Resolved(i), k)[1][1]
           /\ CopyOf(Resolved(i), k).srcoff = Sources(Resolved(i), k)[1][2][1]
           /\ CopyOf(Resolved(i), k).dst = Resolved(i).dev
           /\ CopyOf(Resolved(i), k).kind = "memcpy"
      /\ IF Resolved(i).outcome = "ok"
         THEN Len(Resolved(i).copies) = Len(Resolved(i).outdated)
         ELSE /\ Len(Resolved(i).copies) < Len(Resolved(i).outdated)
              /\ Sources(Resolved(i), Len(Resolved(i).copies) + 1) = << >>

C29_Witness ==
  \E i \in 1 .. Len(call.res) :
    /\ Resolved(i).outcome = "ok"
    /\ Len(Resolved(i).copies) = 1
    /\ Len(Sources(Resolved(i), 1)) = 2
    /\ Sources(Resolved(i), 1)[2][2][1] # Sources(Resolved(i), 1)[1][2][1]
    /\ CopyOf(Resolved(i), 1).srcoff = Sources(Resolved(i), 1)[1][2][1]

\* the executor the scheduler selects for an operation with preferred
\* backend pref of a node assigned to device dev
ExecutorFor(pref, dev) ==
  IF pref # NoBackend THEN GetExecutor(pref, dev) ELSE GetExecutor(BackendOf(dev), dev)

SerialStart ==
  [nodes |-> par.init.nodes, ops |-> << >>, valid |-> par.init.valid[RegionOf(1)],
   alloc |-> par.init.alloc[RegionOf(1)], errors |-> << >>, registry |-> << >>,
   crashed |-> FALSE, writer |-> writer, since |-> since, res |-> << >>, fail |-> FALSE,
   stop |-> FALSE, aborted |-> FALSE, own |-> 0]

SerialFirst == SchedulerSubmit(SerialStart, NodeOf(1), par.th[1].oom)

SerialBetween(s1) ==
  IF RegionOf(2) = RegionOf(1) THEN [s1 EXCEPT !.aborted = FALSE, !.res = << >>]
  ELSE [s1 EXCEPT !.valid = par.init.valid[RegionOf(2)], !.alloc = par.init.alloc[RegionOf(2)],
                  !.aborted = FALSE, !.res = << >>]

SerialSecond(s1) == SchedulerSubmit(SerialBetween(s1), NodeOf(2), par.th[2].oom)

\* the place of operation e among the operations handed over for the nodes of thread t
Rank(os, t, e) == Cardinality({j \in 1 .. e : os[j].node \in NodesOf(t)})

\* the operations handed over for the nodes of thread t, in their order
ThreadOps(os, t) ==
  [k \in 1 .. Rank(os, t, Len(os)) |->
     [os[CHOOSE j \in 1 .. Len(os) : os[j].node \in NodesOf(t) /\ Rank(os, t, j) = k]
        EXCEPT !.wascomplete = @ \cap NodesOf(t)]]

\* node i of thread t, its event and copies named by their place among
\* the operations of the thread
ThreadNode(ns, os, t, i) ==
  [ns[i] EXCEPT !.event = IF @ > 0 THEN Rank(os, t, @) ELSE @,
                !.copies = [k \in 1 .. Len(@) |-> Rank(os, t, @[k])]]

Count(q, e) == Cardinality({j \in 1 .. Len(q) : q[j] = e})

SameEntries(p, q) ==
  /\ Len(p) = Len(q)
  /\ \A j \in 1 .. Len(p) : Count(p, p[j]) = Count(q, p[j])

\* the concurrent run has ended as the serial run that passes through s1
\* and ends in s2
SameAsSerial(s1, s2) ==
  /\ valid = (IF RegionOf(2) = 1 THEN s2.valid ELSE s1.valid)
  /\ alloc = (IF RegionOf(2) = 1 THEN s2.alloc ELSE s1.alloc)
  /\ par.valid = (IF RegionOf(2) = 1 THEN par.init.valid[2] ELSE s2.valid)
  /\ par.alloc = (IF RegionOf(2) = 1 THEN par.init.alloc[2] ELSE s2.alloc)
  /\ \A t \in Threads :
       /\ ThreadOps(ops, t) = ThreadOps(s2.ops, t)
       /\ \A i \in NodesOf(t) : ThreadNode(nodes, ops, t, i) = ThreadNode(s2.nodes, s2.ops, t, i)
  /\ SameEntries(registry, s2.registry)
  /\ SameEntries(errors, s2.errors)

AllDone == \A t \in Threads : par.th[t].pc = "done"

\* C24: two submit calls that run concurrently on nodes whose requirements
\* are on different data regions end, in every interleaving of their steps,
\* with the allocations and tracker of each region, the copies and own
\* operations handed over for each node, the state of each node, the
\* registry and the recorded errors that the two calls leave when one runs
\* after the other.
C24_DisjointSubmissionsDoNotInterfere ==
  AllDone => SameAsSerial(SerialFirst, SerialSecond(SerialFirst))

C24_Witness ==
  /\ AllDone
  /\ registry = <<NodeOf(2), NodeOf(1)>>
  /\ Len(ops) = 5
  /\ ops[1].node \in NodesOf(1)
  /\ ops[2].node \in NodesOf(2)
  /\ ops[3].node \in NodesOf(1)
  /\ ops[4].node \in NodesOf(2)
  /\ ops[5].node \in NodesOf(1)
  /\ ops[4].own
  /\ ops[5].own

\* requirement i is in the list of node n and was submitted before the step
ListedSubmitted(n, i) ==
  Listed(n, i) # {} /\ IsRequirement(nodes[i]) /\ IsSubmitted(nodes[i])

\* C31: a requirement is resolved at most once: a submit call resolves only
\* requirements that were not submitted, each of them once; for a
\* requirement of its list that is already submitted it hands no copy to an
\* executor and makes no allocation, and the tracker, the requirement's
\* event, copies, pointer and lifecycle state stay as they were.
C31_SubmittedRequirementLeftAlone ==
  [][\A n \in 1 .. Len(nodes) :
       SubmitOf(n) =>
         /\ \A j \in 1 .. Len(call'.res) :
              /\ ~IsSubmitted(nodes[call'.res[j].req])
              /\ \A k \in 1 .. Len(call'.res) : call'.res[k].req = call'.res[j].req => k = j
         /\ \A i \in 1 .. Len(nodes) :
              ListedSubmitted(n, i) =>
                /\ \A o \in NewOps : ops'[o].node # i
                /\ Lifecycle(nodes'[i]) = Lifecycle(nodes[i])
                /\ nodes'[i].ptr = nodes[i].ptr
                /\ nodes'[i].executor = nodes[i].executor
         /\ call'.res = << >> => (valid' = valid /\ alloc' = alloc)]_vars

C31_Witness ==
  /\ calls = 2
  /\ call.node = 3
  /\ IsRequirement(nodes[2])
  /\ nodes[3].reqs = <<2, 2>>
  /\ nodes[3].dev # nodes[2].hint
  /\ call.res = << >>
  /\ call.own # 0
  /\ Len(nodes[2].copies) = 1
  /\ nodes[2].event = nodes[2].copies[1]
  /\ registry = <<2, 3>>

\* C32: allocation is lazy: a region is given an allocation on a device
\* only when it has none there, so no device is allocated twice; a
\* requirement whose pointer is bound, in a discard mode as in any other,
\* and a copy that was issued for a requirement have the allocation of
\* their device, and the copy also that of its source.
C32_LazyAllocation ==
  /\ \A a, b \in 1 .. Len(alloc) : alloc[a] = alloc[b] => a = b
  /\ \A i \in 1 .. Len(nodes) : nodes[i].ptr # NoDev => HasAllocation(alloc, nodes[i].ptr)
  /\ \A j \in 1 .. Len(call.res) :
       Resolved(j).outcome \in {"ok", "no_update_source"} =>
         /\ nodes[Resolved(j).req].ptr = Resolved(j).dev
         /\ HasAllocation(alloc, Resolved(j).dev)
  /\ \A o \in 1 .. Len(ops) :
       ~ops[o].own =>
         HasAllocation(alloc, ops[o].dst) /\ HasAllocation(alloc, ops[o].src)

C32_Witness ==
  /\ Len(call.res) = 2
  /\ Resolved(1).mode = "discard_write"
  /\ Resolved(1).outcome = "ok"
  /\ Resolved(1).dev = 2
  /\ Resolved(2).dev = 2
  /\ Resolved(2).copies # << >>
  /\ nodes[Resolved(1).req].ptr = 2
  /\ nodes[Resolved(2).req].ptr = 2
  /\ alloc = <<1, 2>>
  /\ calls = 1

\* C33: the tracker marks the rectangle of a requirement valid or current
\* on its device only when a copy was issued for every outdated rectangle;
\* a resolution that found no update source for an outdated rectangle
\* leaves the tracker as it was, also when copies for earlier rectangles
\* had been issued.
C33_TrackerMarksOnlyWhatWasCopied ==
  \A i \in 1 .. Len(call.res) :
    /\ Resolved(i).outcome = "no_update_source" => Resolved(i).post = Resolved(i).pre
    /\ Resolved(i).post # Resolved(i).pre =>
         Len(Resolved(i).copies) = Len(Resolved(i).outdated)

\* C34: a copy issued for a requirement reads on the source device the
\* rectangle it writes on the assigned device, the outdated rectangle it
\* was made for, and the source device is valid over all of that rectangle
\* when the copy is issued.
C34_CopyReadsWhatItWrites ==
  \A i \in 1 .. Len(call.res) :
    \A k \in 1 .. Len(Resolved(i).copies) :
      /\ CopyOf(Resolved(i), k).srcoff = CopyOf(Resolved(i), k).dstoff
      /\ <<CopyOf(Resolved(i), k).srcoff, CopyOf(Resolved(i), k).extent>> = Resolved(i).outdated[k]
      /\ RectCells(Resolved(i).outdated[k]) \subseteq Resolved(i).pre[CopyOf(Resolved(i), k).src]

\* the elements of the region that some device holds valid under tracker v
ValidSomewhere(v) == UNION {v[d] : d \in Devices}

\* C35: an element of the region that is valid on some device is still
\* valid on some device after every submit call, whether the call went
\* through or aborted and whatever the access modes of its requirements.
C35_NoElementLosesItsLastCopy ==
  [][ValidSomewhere(valid) \subseteq ValidSomewhere(valid')]_vars

C35_Witness ==
  \E i \in 1 .. Len(call.res) :
    /\ Resolved(i).mode \in {"write", "read_write"}
    /\ Resolved(i).outcome = "ok"
    /\ Resolved(i).copies # << >>
    /\ \E y \in Devices \ {Resolved(i).dev} :
         /\ Resolved(i).pre[y] = Cells
         /\ Resolved(i).post[y] # Cells
         /\ Resolved(i).post[y] # {}
    /\ ValidSomewhere(Resolved(i).post) = Cells

\* C36: the assigned device of a node that is submitted does not change:
\* a requirement without binding hint that was resolved for one node keeps
\* its device when a node bound to another device lists it and is submitted.
C36_SubmittedNodeKeepsDevice ==
  [][\A i \in 1 .. Len(nodes) :
       (IsSubmitted(nodes[i]) /\ nodes[i].dev # NoDev) => nodes'[i].dev = nodes[i].dev]_vars

\* the submit call of the step failed: it aborted, ended the process or
\* resolved a requirement with an error
CallFailed ==
  \/ call'.aborted
  \/ crashed'
  \/ \E j \in 1 .. Len(call'.res) : call'.res[j].outcome # "ok"

\* C37: a submit call that fails adds one entry to the error sink,
\* whatever the class of the error, and a submit call that succeeds adds none.
C37_OneErrorPerFailedCall ==
  [][(calls' = calls + 1) =>
       /\ SubSeq(errors', 1, Len(errors)) = errors
       /\ Len(errors') = Len(errors) + (IF CallFailed THEN 1 ELSE 0)]_vars

\* C38: when the backend of a requirement's device has no allocator for
\* the device and the region has no allocation there, the resolution
\* records an error and the submission is aborted with the node cancelled;
\* allocate is not called through the missing allocator, the process goes on.
C38_MissingAllocatorIsReported ==
  \A i \in 1 .. Len(call.res) :
    (/\ GetAllocator(BackendOf(Resolved(i).dev), Resolved(i).dev) = NullPtr
     /\ ~HasAllocation(alloc, Resolved(i).dev)) =>
      /\ ~crashed
      /\ Resolved(i).outcome # "crashed"
      /\ call.aborted
      /\ nodes[call.node].cancelled
      /\ errors # << >>

\* the indices of the devices of the hardware manager that hold handle d
Holders(d) == {i \in 0 .. (GetNumDevices(ze.devices) - 1) : ze.devices[i + 1] = d}

\* C39: looking up the handle of device i, for every i below the number of
\* devices, returns success and sets out to the device id of the lowest
\* index that holds the handle; looking up a handle that no device holds
\* returns an error and leaves out as it was.
C39_HandleLookupInvertsEnumeration ==
  [][\A d \in Handles :
       (ze'.handle = d /\ ze' # ze) =>
         /\ ze'.devices = ze.devices
         /\ IF Holders(d) # {}
            THEN /\ ze'.result = "success"
                 /\ \E i \in Holders(d) :
                      /\ \A j \in Holders(d) : i <= j
                      /\ ze'.out = GetDeviceId(i)
            ELSE /\ ze'.result = "error"
                 /\ ze'.out = ze.out]_vars

C39_Witness ==
  /\ GetNumDevices(ze.devices) = 3
  /\ ze.devices[1] # ze.handle
  /\ ze.devices[2] = ze.handle
  /\ ze.devices[3] = ze.handle
  /\ ze.result = "success"
  /\ ze.out = GetDeviceId(1)

====
